---- MODULE Spec2Model ----
(***************************************************************************)
(* Model of scripts/tick.py: one scheduled "tick" of the trading bot.      *)
(* A tick loads state.json, invokes the agent CLI, parses a JSON object    *)
(* out of its free-form output, appends to the action log, reconciles and  *)
(* rewrites state.json and sends a Slack summary; every exception ends in  *)
(* the handler at the bottom of main().                                    *)
(***************************************************************************)
EXTENDS Integers, Sequences, FiniteSets, TLC

(***************************************************************************)
(* Bounds of the exploration.                                              *)
(***************************************************************************)
MaxTicks == 2
LongTicks == 52
MaxFaults == 1
FaultWindow == 3
MaxLen == 5

(***************************************************************************)
(* Program constants.                                                      *)
(***************************************************************************)
HistoryLimit == 50
RawOutputLimit == 2000

Min(S) == CHOOSE x \in S : \A y \in S : x <= y
Max(S) == CHOOSE x \in S : \A y \in S : x >= y

(***************************************************************************)
(* JSON values as Python holds them after json.loads.  A dict is a         *)
(* function from its keys; membership of a key ("k in d") is membership in *)
(* the DOMAIN.                                                             *)
(***************************************************************************)
Null == [t |-> "null"]
JBool(b) == [t |-> "bool", v |-> b]
JNum(n) == [t |-> "num", v |-> n]
JStr(s) == [t |-> "str", v |-> s]
JList(s) == [t |-> "list", v |-> s]
JDict(f) == [t |-> "dict", v |-> f]
\* an ISO timestamp string, named by the clock value it was taken at
JTime(n) == [t |-> "time", v |-> n]
\* a string holding agent output
JText(s) == [t |-> "text", v |-> s]
EmptyDict == JDict(<<>>)

\* dict.get(key, default)
Get(d, k, default) == IF k \in DOMAIN d.v THEN d.v[k] ELSE default

(***************************************************************************)
(* Text of the agent's stdout.  A text is a sequence of tokens, each token *)
(* standing for a fixed run of characters:                                 *)
(*   "F"  three backticks             "J"  the label json                  *)
(*   "W"  a newline                   "x"  a word of prose                 *)
(*   "{" "}" ","  themselves          "1"  the digit 1                     *)
(*   "DEEP"  a run of '[' longer than the interpreter's recursion limit    *)
(*   a member token: one complete "key": value pair of a JSON object.      *)
(* Backticks occur only in runs of three.  Member tokens whose value holds *)
(* braces are used only inside an enclosing object or fence.               *)
(***************************************************************************)
Position == [symbol |-> "AAPL", market_value |-> 1000, unrealized_pl |-> 50]
Decision == [action |-> "buy", symbol |-> "AAPL", qty |-> 1]

MemberTokens == {"P0", "PN", "P1", "BN", "B1", "DN", "D1", "NN", "N1", "MO"}

MemberKey(tok) ==
    CASE tok \in {"P0", "PN", "P1"} -> "positions_snapshot"
      [] tok \in {"BN", "B1"} -> "buying_power"
      [] tok \in {"DN", "D1"} -> "decisions"
      [] tok \in {"NN", "N1"} -> "notes"
      [] OTHER -> "market_open"

MemberVal(tok) ==
    CASE tok = "P0" -> JList(<<>>)
      [] tok = "P1" -> JList(<<Position>>)
      [] tok = "B1" -> JNum(100)
      [] tok = "D1" -> JList(<<Decision>>)
      [] tok = "N1" -> JStr("ok")
      [] tok = "MO" -> JBool(TRUE)
      [] OTHER -> Null

\* str.strip(): leading and trailing whitespace removed
Strip(s) ==
    LET keep == {i \in 1..Len(s) : s[i] # "W"}
    IN  IF keep = {} THEN <<>> ELSE SubSeq(s, Min(keep), Max(keep))

\* the tokens of s that are not whitespace, in order
RECURSIVE NoWs(_)
NoWs(s) ==
    IF s = <<>> THEN <<>>
    ELSE IF Head(s) = "W" THEN NoWs(Tail(s))
    ELSE <<Head(s)>> \o NoWs(Tail(s))

Raised(kind) == [exc |-> kind, val |-> Null]
Returned(v) == [exc |-> "none", val |-> v]

\* json.loads(json_str): the decoded value, or the exception it raises.
\* Only JSONDecodeError is what the caller's except clause names; the
\* scanner's recursion guard raises RecursionError on input nested too deep.
JsonLoads(s) ==
    LET b == NoWs(s)
        n == Len(b)
        inner == SubSeq(b, 2, n - 1)
        wellFormed ==
            /\ n >= 2
            /\ b[1] = "{"
            /\ b[n] = "}"
            /\ \/ inner = <<>>
               \/ /\ Len(inner) % 2 = 1
                  /\ \A i \in 1..Len(inner) :
                        IF i % 2 = 1 THEN inner[i] \in MemberTokens
                        ELSE inner[i] = ","
        lastOf(k) == Max({i \in 1..Len(inner) :
                            inner[i] \in MemberTokens /\ MemberKey(inner[i]) = k})
    IN  IF n = 0 THEN Raised("JSONDecodeError")
        ELSE IF b[1] = "DEEP" THEN Raised("RecursionError")
        ELSE IF \A i \in 1..Len(Strip(s)) : Strip(s)[i] = "1"
             THEN Returned(JNum((10 ^ Len(Strip(s)) - 1) \div 9))
        ELSE IF wellFormed
             THEN Returned(JDict([k \in {MemberKey(inner[i]) :
                                           i \in {j \in 1..Len(inner) : inner[j] \in MemberTokens}}
                                  |-> MemberVal(inner[lastOf(k)])]))
        ELSE Raised("JSONDecodeError")

\* output[:RawOutputLimit]
Truncate(s, n) == SubSeq(s, 1, IF Len(s) < n THEN Len(s) ELSE n)

\* the fallback object of parse_claude_response
Fallback(note, output) ==
    JDict([k \in {"decisions", "notes", "raw_output", "parse_error"} |->
            CASE k = "decisions" -> JList(<<>>)
              [] k = "notes" -> JStr(note)
              [] k = "raw_output" -> JText(Truncate(output, RawOutputLimit))
              [] OTHER -> JBool(TRUE)])

\* re.search(r'```(?:json)?\s*\n?(.*?)\n?```', output, re.DOTALL):
\* whether it matches, and group(1) of the leftmost match
FenceIdx(s) == {i \in 1..Len(s) : s[i] = "F"}
FenceMatch(s) == Cardinality(FenceIdx(s)) >= 2
FenceGroup(s) ==
    LET open == Min(FenceIdx(s))
        afterLabel == IF open + 1 <= Len(s) /\ s[open + 1] = "J"
                      THEN open + 2 ELSE open + 1
        \* \s* is greedy: it takes every newline, \n? is left with none
        afterWs == Min({i \in afterLabel..Len(s) : s[i] # "W"})
        close == Min({i \in FenceIdx(s) : i >= afterWs})
        \* .*? is lazy: the content stops before the newline that precedes
        \* the closing fence
        last == IF close - 1 >= afterWs /\ s[close - 1] = "W"
                THEN close - 2 ELSE close - 1
    IN  SubSeq(s, afterWs, last)

\* re.search(r'\{[\s\S]*\}', output): greedy, first '{' to last '}'
BraceMatch(s) ==
    \E i, j \in 1..Len(s) : i < j /\ s[i] = "{" /\ s[j] = "}"
BraceGroup(s) ==
    SubSeq(s, Min({i \in 1..Len(s) : s[i] = "{"}),
              Max({j \in 1..Len(s) : s[j] = "}"}))

\* parse_claude_response(output): what it returns, or the exception that
\* leaves it
parse_claude_response(output) ==
    IF ~FenceMatch(output) /\ ~BraceMatch(output)
    THEN Returned(Fallback("Could not parse JSON from response", output))
    ELSE LET json_str == IF FenceMatch(output)
                         THEN Strip(FenceGroup(output))
                         ELSE BraceGroup(output)
             decoded == JsonLoads(json_str)
         IN  IF decoded.exc = "JSONDecodeError"
             THEN Returned(Fallback("JSON parse error", output))
             ELSE decoded

(***************************************************************************)
(* AssetTypeConfig.from_env.  An environment value is a string, held as a  *)
(* sequence of characters, or is unset.                                    *)
(***************************************************************************)
ToggleVars == {"ENABLE_STOCK_TRADING", "ENABLE_CRYPTO_TRADING", "ENABLE_OPTIONS_TRADING"}

Unset == [set |-> FALSE, val |-> <<>>]
SetTo(s) == [set |-> TRUE, val |-> s]

\* str.lower() on one character
LowerChar(c) ==
    CASE c = "F" -> "f" [] c = "A" -> "a" [] c = "L" -> "l" [] c = "S" -> "s"
      [] c = "E" -> "e" [] c = "N" -> "n" [] c = "O" -> "o" [] c = "T" -> "t"
      [] OTHER -> c
Lower(s) == [i \in 1..Len(s) |-> LowerChar(s[i])]

FalsyTokens == { <<"f", "a", "l", "s", "e">>, <<"0">>, <<"n", "o">>, <<"o", "f", "f">> }

\* is_enabled without the lower-casing
is_enabled_exact(value, default) ==
    IF ~value.set THEN default
    ELSE value.val \notin FalsyTokens

is_enabled(value, default) ==
    IF ~value.set THEN default
    ELSE Lower(value.val) \notin FalsyTokens

from_env(e) ==
    [stocks |-> is_enabled(e["ENABLE_STOCK_TRADING"], TRUE),
     crypto |-> is_enabled(e["ENABLE_CRYPTO_TRADING"], FALSE),
     options |-> is_enabled(e["ENABLE_OPTIONS_TRADING"], FALSE)]

(***************************************************************************)
(* state.json.  The file is absent, holds a complete JSON document, or     *)
(* holds what an interrupted write left: nothing, or a prefix.             *)
(***************************************************************************)
Skeleton ==
    [last_tick_iso |-> Null,
     positions_snapshot |-> JList(<<>>),
     buying_power |-> Null,
     actions_history |-> <<>>,
     notes |-> JStr("Initial state. Human can add notes here.")]

Absent == [kind |-> "absent"]
EmptyFile == [kind |-> "empty"]
PartialFile == [kind |-> "partial"]
\* json.dumps(state, indent=2) as the content of the file
Dumps(st) == [kind |-> "json", val |-> st]
\* json.loads(STATE_JSON.read_text()): an empty or cut document does not decode
Loads(file) ==
    IF file.kind = "json" THEN Returned(file.val) ELSE Raised("JSONDecodeError")

\* history[-n:] taking one entry too many
LastN_off(s, n) == IF Len(s) <= n + 1 THEN s ELSE SubSeq(s, Len(s) - n, Len(s))

\* history[:n], the slice taken from the wrong end
LastN_head(s, n) == IF Len(s) <= n THEN s ELSE SubSeq(s, 1, n)

\* history[-n:]
LastN(s, n) == IF Len(s) <= n THEN s ELSE SubSeq(s, Len(s) - n + 1, Len(s))

\* update_state with the keys tested for truth instead of presence
update_state_truthy(st, res, tick) ==
    LET truthy(x) == x # Null /\ x # JList(<<>>)
        s1 == [st EXCEPT !.last_tick_iso = JTime(tick)]
        s2 == IF "positions_snapshot" \in DOMAIN res.v
                 /\ truthy(res.v["positions_snapshot"])
              THEN [s1 EXCEPT !.positions_snapshot = res.v["positions_snapshot"]]
              ELSE s1
        s3 == IF "buying_power" \in DOMAIN res.v /\ truthy(res.v["buying_power"])
              THEN [s2 EXCEPT !.buying_power = res.v["buying_power"]]
              ELSE s2
        action_entry == [ts |-> tick,
                         decisions |-> Get(res, "decisions", JList(<<>>)),
                         market_open |-> Get(res, "market_open", Null),
                         notes |-> Get(res, "notes", JStr(""))]
        history == Append(s3.actions_history, action_entry)
    IN  [s3 EXCEPT !.actions_history = LastN(history, HistoryLimit)]

\* update_state with result.get(key, default) in place of the key tests
update_state_get(st, res, tick) ==
    LET s1 == [st EXCEPT !.last_tick_iso = JTime(tick),
                         !.positions_snapshot = Get(res, "positions_snapshot", JList(<<>>)),
                         !.buying_power = Get(res, "buying_power", Null)]
        action_entry == [ts |-> tick,
                         decisions |-> Get(res, "decisions", JList(<<>>)),
                         market_open |-> Get(res, "market_open", Null),
                         notes |-> Get(res, "notes", JStr(""))]
        history == Append(s1.actions_history, action_entry)
    IN  [s1 EXCEPT !.actions_history = LastN(history, HistoryLimit)]

update_state(st, res, tick) ==
    LET s1 == [st EXCEPT !.last_tick_iso = JTime(tick)]
        s2 == IF "positions_snapshot" \in DOMAIN res.v
              THEN [s1 EXCEPT !.positions_snapshot = res.v["positions_snapshot"]]
              ELSE s1
        s3 == IF "buying_power" \in DOMAIN res.v
              THEN [s2 EXCEPT !.buying_power = res.v["buying_power"]]
              ELSE s2
        action_entry == [ts |-> tick,
                         decisions |-> Get(res, "decisions", JList(<<>>)),
                         market_open |-> Get(res, "market_open", Null),
                         notes |-> Get(res, "notes", JStr(""))]
        history == Append(s3.actions_history, action_entry)
    IN  [s3 EXCEPT !.actions_history = LastN(history, HistoryLimit)]

\* main(), lines 649-655: len(decisions) and the loop over it
PrintSummaryRaises(res) == Get(res, "decisions", JList(<<>>)).t # "list"

\* send_slack_summary, lines 375-461: the payload is built outside the try;
\* iterating positions and slicing notes need a list and a string
BuildSummaryRaises(res) ==
    \/ Get(res, "positions_snapshot", JList(<<>>)).t # "list"
    \/ Get(res, "decisions", JList(<<>>)).t # "list"
    \/ Get(res, "notes", JStr("No notes")).t # "str"

(***************************************************************************)
(* The state of the system: the environment a tick process starts in, the  *)
(* files under STATE_DIR, the Slack webhook, and the position and locals   *)
(* of the running main().                                                  *)
(***************************************************************************)
VARIABLES
    env,         \* the three ENABLE_* environment variables
    webhook,     \* SLACK_WEBHOOK_URL is non-empty
    canMkdir,    \* STATE_DIR and LOG_DIR can be created
    logDir,      \* LOG_DIR exists
    stateFile,   \* content of state.json
    actionsLog,  \* lines of actions.ndjson
    errorsLog,   \* lines of errors.ndjson
    slack,       \* calls of send_slack_summary / send_slack_alert, in order
    now,         \* the clock: number of ticks started
    faults,      \* environment faults injected so far
    pc,          \* position of the tick process; "idle" when none runs
    exitCode,    \* how the last process ended
    config,      \* asset_config
    tick_time,
    state,
    output,
    returncode,
    result,
    err,         \* the exception caught by main()'s handler
    errAt,       \* the position it was raised at
    agent,       \* how run_claude_code() ended in this tick
    persisted,   \* line 642 has completed in this tick
    startFile    \* content of state.json when the tick started

vars == <<env, webhook, canMkdir, logDir, stateFile, actionsLog, errorsLog,
          slack, now, faults, pc, exitCode, config, tick_time, state, output,
          returncode, result, err, errAt, agent, persisted, startFile>>

files == <<stateFile, actionsLog, errorsLog, slack, logDir>>
locals == <<config, tick_time, state, output, returncode, result>>
world == <<env, webhook, canMkdir>>
trace == <<err, errAt, agent, persisted, startFile>>

AllUnset == [v \in ToggleVars |-> Unset]

\* agent outputs of the short runs
Outputs ==
    { <<>>,
      <<"x">>,
      <<"{", "x">>,
      <<"F", "J", "W", "{", "}", "W", "F">>,
      <<"x", "{", "P0", "}">>,
      <<"{", "PN", "}">>,
      <<"{", "BN", "}">>,
      <<"{", "DN", "}">>,
      <<"{", "NN", "}">>,
      <<"{", "P1", ",", "B1", ",", "D1", ",", "N1", ",", "MO", "}">>,
      <<"F", "x", "F", "{", "}">>,
      <<"F", "1", "F">>,
      <<"F", "DEEP", "F">> }

\* agent outputs of the long runs: the empty object, and within the fault
\* budget an object the summary cannot print and a response with every key
FullOutput == <<"{", "P1", ",", "B1", ",", "D1", ",", "N1", ",", "MO", "}">>
LongOutputs == { <<"{", "}">>, <<"{", "DN", "}">>, FullOutput }
OddOutputs == { <<"{", "DN", "}">>, FullOutput }

ReturnCodes == {0, 1}

\* what a run explores: the number of ticks, the outputs of the agent, the
\* outputs that count as faults, the number of faults and the tick from
\* which they occur
ShortRun == [ticks |-> MaxTicks, outs |-> Outputs, odd |-> {},
             faults |-> MaxTicks, from |-> 1]
LongRun == [ticks |-> LongTicks, outs |-> LongOutputs, odd |-> OddOutputs,
            faults |-> MaxFaults, from |-> LongTicks - FaultWindow + 1]
EnvRun == [ticks |-> 1, outs |-> {}, odd |-> {}, faults |-> 0, from |-> 1]

MayFault(b) == faults < b.faults /\ now >= b.from

InitWith(envs, webhooks, mkdirs) ==
    /\ env \in envs
    /\ webhook \in webhooks
    /\ canMkdir \in mkdirs
    /\ logDir = FALSE
    /\ stateFile = Absent
    /\ actionsLog = <<>>
    /\ errorsLog = <<>>
    /\ slack = <<>>
    /\ now = 0
    /\ faults = 0
    /\ pc = "idle"
    /\ exitCode = "none"
    /\ config = from_env(AllUnset)
    /\ tick_time = 0
    /\ state = Skeleton
    /\ output = <<>>
    /\ returncode = 0
    /\ result = EmptyDict
    /\ err = "none"
    /\ errAt = "none"
    /\ agent = "none"
    /\ persisted = FALSE
    /\ startFile = Absent

\* main(), lines 614-619: a new process is started by the scheduler
StartTick(b) ==
    /\ pc = "idle"
    /\ now < b.ticks
    /\ now' = now + 1
    /\ tick_time' = now + 1
    /\ config' = from_env(env)
    /\ state' = Skeleton
    /\ output' = <<>>
    /\ returncode' = 0
    /\ result' = EmptyDict
    /\ err' = "none"
    /\ errAt' = "none"
    /\ agent' = "none"
    /\ persisted' = FALSE
    /\ exitCode' = "running"
    /\ startFile' = stateFile
    /\ pc' = "init"
    /\ UNCHANGED <<files, world, faults>>

\* an exception reaches "except Exception as e" of main()
Raise(e) ==
    /\ err' = e
    /\ errAt' = pc
    /\ pc' = "except"

\* ensure_directories() and init_state_json() up to the write of the
\* skeleton: mkdir fails, the file is missing and is opened for writing,
\* or the file is read and decoded
Setup(b) ==
    /\ pc = "init"
    /\ IF ~logDir /\ ~canMkdir
       THEN /\ Raise("PermissionError")
            /\ UNCHANGED <<files, state, faults>>
       ELSE /\ logDir' = TRUE
            /\ IF stateFile.kind = "absent"
               THEN /\ stateFile' = EmptyFile
                    /\ pc' = "init_write"
                    /\ UNCHANGED <<state, err, errAt, faults>>
               ELSE \/ /\ Loads(stateFile).exc = "none"
                       /\ state' = Loads(stateFile).val
                       /\ pc' = "run"
                       /\ UNCHANGED <<stateFile, err, errAt, faults>>
                    \/ /\ Loads(stateFile).exc # "none"
                       /\ Raise(Loads(stateFile).exc)
                       /\ UNCHANGED <<stateFile, state, faults>>
                    \/ /\ MayFault(b)
                       /\ faults' = faults + 1
                       /\ Raise("OSError")
                       /\ UNCHANGED <<stateFile, state>>
            /\ UNCHANGED <<actionsLog, errorsLog, slack>>
    /\ UNCHANGED <<world, now, exitCode, config, tick_time, output, returncode,
                   result, agent, persisted, startFile>>

\* init_state_json(), lines 142-143: the skeleton is written, read back
\* and decoded
InitWrite ==
    /\ pc = "init_write"
    /\ stateFile' = Dumps(Skeleton)
    /\ state' = Loads(Dumps(Skeleton)).val
    /\ pc' = "run"
    /\ UNCHANGED <<world, logDir, actionsLog, errorsLog, slack, now, faults,
                   exitCode, config, tick_time, output, returncode, result,
                   trace>>

\* run_claude_code() with a non-zero exit code raised as an error
RunClaude_checked(b) ==
    /\ pc = "run"
    /\ \/ /\ \E o \in b.outs, rc \in ReturnCodes :
                /\ output' = o
                /\ returncode' = rc
                /\ IF o \in b.odd
                   THEN MayFault(b) /\ faults' = faults + 1
                   ELSE UNCHANGED faults
                /\ IF rc = 0
                   THEN pc' = "parse" /\ UNCHANGED <<err, errAt>>
                   ELSE Raise("CalledProcessError")
          /\ agent' = "returned"
       \/ /\ MayFault(b)
          /\ faults' = faults + 1
          /\ agent' = "raised"
          /\ \E e \in {"Claude Code timed out after 5 minutes",
                       "Claude Code CLI not found. Is it installed?"} : Raise(e)
          /\ UNCHANGED <<output, returncode>>
    /\ UNCHANGED <<files, world, now, exitCode, config, tick_time, state,
                   result, persisted, startFile>>

\* run_claude_code(): the process returns stdout and an exit code, or
\* subprocess.run raises TimeoutExpired or FileNotFoundError
RunClaude(b) ==
    /\ pc = "run"
    /\ \/ /\ \E o \in b.outs, rc \in ReturnCodes :
                /\ output' = o
                /\ returncode' = rc
                /\ IF o \in b.odd
                   THEN MayFault(b) /\ faults' = faults + 1
                   ELSE UNCHANGED faults
          /\ agent' = "returned"
          /\ pc' = "parse"
          /\ UNCHANGED <<err, errAt>>
       \/ /\ MayFault(b)
          /\ faults' = faults + 1
          /\ agent' = "raised"
          /\ \E e \in {"Claude Code timed out after 5 minutes",
                       "Claude Code CLI not found. Is it installed?"} : Raise(e)
          /\ UNCHANGED <<output, returncode>>
    /\ UNCHANGED <<files, world, now, exitCode, config, tick_time, state,
                   result, persisted, startFile>>

\* main(), line 635
ParseResponse ==
    /\ pc = "parse"
    /\ LET r == parse_claude_response(output)
       IN  IF r.exc = "none"
           THEN /\ result' = r.val
                /\ pc' = "log"
                /\ UNCHANGED <<err, errAt>>
           ELSE /\ Raise(r.exc)
                /\ UNCHANGED result
    /\ UNCHANGED <<files, world, now, faults, exitCode, config, tick_time,
                   state, output, returncode, agent, persisted, startFile>>

\* log_action() writing the line before the result is unpacked
LogAction_eager ==
    /\ pc = "log"
    /\ actionsLog' = Append(actionsLog, [ts |-> tick_time, result |-> result])
    /\ IF result.t = "dict"
       THEN /\ pc' = "update"
            /\ UNCHANGED <<err, errAt>>
       ELSE Raise("TypeError")
    /\ UNCHANGED <<stateFile, errorsLog, slack, logDir, world, now, faults,
                   exitCode, locals, agent, persisted, startFile>>

\* log_action(): {"ts": ..., **result} needs a mapping
LogAction ==
    /\ pc = "log"
    /\ IF result.t = "dict"
       THEN /\ actionsLog' = Append(actionsLog, [ts |-> tick_time, result |-> result])
            /\ pc' = "update"
            /\ UNCHANGED <<err, errAt>>
       ELSE /\ Raise("TypeError")
            /\ UNCHANGED actionsLog
    /\ UNCHANGED <<stateFile, errorsLog, slack, logDir, world, now, faults,
                   exitCode, locals, agent, persisted, startFile>>

\* main(), line 641
UpdateState ==
    /\ pc = "update"
    /\ state' = update_state(state, result, tick_time)
    /\ pc' = "open"
    /\ UNCHANGED <<files, world, now, faults, exitCode, config, tick_time,
                   output, returncode, result, trace>>

\* STATE_JSON.write_text(), line 642: open(mode='w') truncates the file
OpenStateFile ==
    /\ pc = "open"
    /\ stateFile' = EmptyFile
    /\ pc' = "write"
    /\ UNCHANGED <<actionsLog, errorsLog, slack, logDir, world, now, faults,
                   exitCode, locals, trace>>

\* the buffered text reaches the file in one piece or in several
WriteStateFile ==
    /\ pc = "write"
    /\ \/ /\ stateFile.kind = "empty"
          /\ stateFile' = PartialFile
          /\ pc' = "write"
          /\ UNCHANGED persisted
       \/ /\ stateFile' = Dumps(state)
          /\ persisted' = TRUE
          /\ pc' = "report"
    /\ UNCHANGED <<actionsLog, errorsLog, slack, logDir, world, now, faults,
                   exitCode, locals, err, errAt, agent, startFile>>

\* main(), lines 644-655: the parse warning and the printed summary
PrintSummary ==
    /\ pc = "report"
    /\ IF PrintSummaryRaises(result)
       THEN Raise("TypeError")
       ELSE /\ pc' = "notify"
            /\ UNCHANGED <<err, errAt>>
    /\ UNCHANGED <<files, world, now, faults, exitCode, locals, agent,
                   persisted, startFile>>

\* send_slack_summary(), line 658: nothing without a webhook; else the
\* payload is built, unguarded, and posted inside try/except; main()
\* returns and the process ends with status 0
SendSummary ==
    /\ pc = "notify"
    /\ IF ~webhook
       THEN /\ slack' = Append(slack, [kind |-> "summary", tick |-> tick_time,
                                       sent |-> "skipped"])
            /\ exitCode' = "0"
            /\ pc' = "idle"
            /\ UNCHANGED <<err, errAt>>
       ELSE IF BuildSummaryRaises(result)
       THEN /\ Raise("TypeError")
            /\ UNCHANGED <<slack, exitCode>>
       ELSE /\ \E outcome \in {"delivered", "failed"} :
                  slack' = Append(slack, [kind |-> "summary", tick |-> tick_time,
                                          sent |-> outcome])
            /\ exitCode' = "0"
            /\ pc' = "idle"
            /\ UNCHANGED <<err, errAt>>
    /\ UNCHANGED <<stateFile, actionsLog, errorsLog, logDir, world, now, faults,
                   locals, agent, persisted, startFile>>

\* main(), lines 660-665: log_error() appends to errors.ndjson; open()
\* raises out of the handler when LOG_DIR does not exist
LogError ==
    /\ pc = "except"
    /\ IF logDir
       THEN /\ errorsLog' = Append(errorsLog, [ts |-> tick_time, error |-> err])
            /\ pc' = "alert"
            /\ UNCHANGED exitCode
       ELSE /\ exitCode' = "traceback"
            /\ pc' = "idle"
            /\ UNCHANGED errorsLog
    /\ UNCHANGED <<stateFile, actionsLog, slack, logDir, world, now, faults,
                   locals, trace>>

\* history[-1] if history else None, any failure leaving None
LastAction(file) ==
    IF file.kind = "json" /\ file.val.actions_history # <<>>
    THEN file.val.actions_history[Len(file.val.actions_history)]
    ELSE Null

\* main(), lines 667-679: the last action is looked up, the alert is sent,
\* sys.exit(1)
Alert ==
    /\ pc = "alert"
    /\ \E outcome \in IF webhook THEN {"delivered", "failed"} ELSE {"skipped"} :
          slack' = Append(slack, [kind |-> "alert", tick |-> tick_time,
                                  error |-> err,
                                  last_action |-> LastAction(stateFile),
                                  sent |-> outcome])
    /\ exitCode' = "1"
    /\ pc' = "idle"
    /\ UNCHANGED <<stateFile, actionsLog, errorsLog, logDir, world, now, faults,
                   locals, trace>>

\* the process is killed while state.json is open for writing
Kill(b) ==
    /\ pc \in {"init_write", "write"}
    /\ MayFault(b)
    /\ faults' = faults + 1
    /\ exitCode' = "killed"
    /\ pc' = "idle"
    /\ UNCHANGED <<files, world, now, locals, trace>>

(***************************************************************************)
(* Short runs: every output, every fault, with and without a webhook.      *)
(***************************************************************************)
Init == InitWith({AllUnset}, BOOLEAN, BOOLEAN)
Next ==
    \/ StartTick(ShortRun)
    \/ Setup(ShortRun)
    \/ InitWrite
    \/ RunClaude(ShortRun)
    \/ ParseResponse
    \/ LogAction
    \/ UpdateState
    \/ OpenStateFile
    \/ WriteStateFile
    \/ PrintSummary
    \/ SendSummary
    \/ LogError
    \/ Alert
    \/ Kill(ShortRun)
Spec == Init /\ [][Next]_vars

(***************************************************************************)
(* Long runs: enough ticks to fill the history, faults in the last ticks.  *)
(***************************************************************************)
InitLong == InitWith({AllUnset}, {FALSE}, {TRUE})
NextLong ==
    \/ StartTick(LongRun)
    \/ Setup(LongRun)
    \/ InitWrite
    \/ RunClaude(LongRun)
    \/ ParseResponse
    \/ LogAction
    \/ UpdateState
    \/ OpenStateFile
    \/ WriteStateFile
    \/ PrintSummary
    \/ SendSummary
    \/ LogError
    \/ Alert
    \/ Kill(LongRun)
SpecLong == InitLong /\ [][NextLong]_vars

(***************************************************************************)
(* The toggles: a process is started in each environment.                  *)
(***************************************************************************)
EnvValues ==
    { <<>>,
      <<"f", "a", "l", "s", "e">>,
      <<"F", "A", "L", "S", "E">>,
      <<"F", "a", "l", "s", "e">>,
      <<"0">>,
      <<"0", "0">>,
      <<"n", "o">>,
      <<"N", "o">>,
      <<"o", "f", "f">>,
      <<"O", "F", "F">>,
      <<"o", "f">>,
      <<"t", "r", "u", "e">>,
      <<"1">>,
      <<" ", "n", "o">>,
      <<"x">> }
Environments == [ToggleVars -> {Unset} \cup {SetTo(s) : s \in EnvValues}]

InitEnv == InitWith(Environments, {FALSE}, {TRUE})
NextEnv == StartTick(EnvRun)
SpecEnv == InitEnv /\ [][NextEnv]_vars

(***************************************************************************)
(* The parser: the agent of the first tick has returned a text.            *)
(***************************************************************************)
ParseAlphabet == {"F", "J", "W", "{", "}", "x", "BN", "DEEP"}
Texts == UNION {[1..k -> ParseAlphabet] : k \in 0..MaxLen}

InitParse ==
    /\ env = AllUnset
    /\ webhook = FALSE
    /\ canMkdir = TRUE
    /\ logDir = TRUE
    /\ stateFile = Dumps(Skeleton)
    /\ actionsLog = <<>>
    /\ errorsLog = <<>>
    /\ slack = <<>>
    /\ now = 1
    /\ faults = 0
    /\ pc = "parse"
    /\ exitCode = "running"
    /\ config = from_env(AllUnset)
    /\ tick_time = 1
    /\ state = Skeleton
    /\ output \in Texts
    /\ returncode = 0
    /\ result = EmptyDict
    /\ err = "none"
    /\ errAt = "none"
    /\ agent = "returned"
    /\ persisted = FALSE
    /\ startFile = Absent
NextParse == ParseResponse
SpecParse == InitParse /\ [][NextParse]_vars

(***************************************************************************)
(* Properties.                                                             *)
(***************************************************************************)
\* the state the tick loaded: the content of the file at its start, the
\* skeleton when the file was missing
OldState == IF startFile.kind = "json" THEN startFile.val ELSE Skeleton

AfterUpdate == pc \in {"open", "write", "report", "notify"}

\* a process has run and has ended on its own
TickEnded == pc = "idle" /\ exitCode \in {"0", "1", "traceback"}

\* C1: update_state replaces positions_snapshot and buying_power whole when
\* the response holds the key, whatever the value (null and the empty list
\* included), and keeps the old value when the response lacks the key.
C1_ReplaceIfPresent ==
    AfterUpdate =>
        /\ "positions_snapshot" \in DOMAIN result.v
              => state.positions_snapshot = result.v["positions_snapshot"]
        /\ "positions_snapshot" \notin DOMAIN result.v
              => state.positions_snapshot = OldState.positions_snapshot
        /\ "buying_power" \in DOMAIN result.v
              => state.buying_power = result.v["buying_power"]
        /\ "buying_power" \notin DOMAIN result.v
              => state.buying_power = OldState.buying_power

\* an explicit empty list has overwritten a non-empty snapshot while the
\* buying power, absent from the response, was kept
C1_Witness ==
    /\ pc = "report"
    /\ OldState.positions_snapshot = JList(<<Position>>)
    /\ OldState.buying_power = JNum(100)
    /\ "positions_snapshot" \in DOMAIN result.v
    /\ result.v["positions_snapshot"] = JList(<<>>)
    /\ "buying_power" \notin DOMAIN result.v
    /\ state.positions_snapshot = JList(<<>>)
    /\ state.buying_power = JNum(100)

\* C2: from the missing state file on, whatever ticks succeed or fail, the
\* actions_history held in state.json never has more than 50 entries.
C2_HistoryBounded ==
    stateFile.kind = "json" => Len(stateFile.val.actions_history) <= HistoryLimit

\* the history is full and its oldest entries have been dropped
C2_Witness ==
    /\ stateFile.kind = "json"
    /\ Len(stateFile.val.actions_history) = HistoryLimit
    /\ stateFile.val.actions_history[1].ts > 1
    /\ pc = "idle"

\* the text the claims call the candidate: the content of the first fenced
\* block when there are two fences, else the span from the first '{' to
\* the last '}'
HasFencedBlock(o) == \E i, j \in 1..Len(o) : i < j /\ o[i] = "F" /\ o[j] = "F"
FirstBlock(o) ==
    LET f1 == Min(FenceIdx(o))
        f2 == Min(FenceIdx(o) \ {f1})
        inner == SubSeq(o, f1 + 1, f2 - 1)
    IN  Strip(IF inner # <<>> /\ inner[1] = "J" THEN Tail(inner) ELSE inner)
HasBraceSpan(o) == \E i, j \in 1..Len(o) : i < j /\ o[i] = "{" /\ o[j] = "}"
HasCandidate(o) == HasFencedBlock(o) \/ HasBraceSpan(o)
Candidate(o) == IF HasFencedBlock(o) THEN FirstBlock(o) ELSE BraceGroup(o)

\* the output holds no JSON, or JSON that does not decode
NoJsonOrMalformed(o) ==
    ~HasCandidate(o) \/ JsonLoads(Candidate(o)).exc # "none"

ErrorLines(t) == {i \in DOMAIN errorsLog : errorsLog[i].ts = t}
Alerts(t) == {i \in DOMAIN slack : slack[i].kind = "alert" /\ slack[i].tick = t}
Summaries(t) == {i \in DOMAIN slack : slack[i].kind = "summary" /\ slack[i].tick = t}

\* C3: when the agent returns output with no JSON or malformed JSON, the
\* parser yields the fallback object with parse_error, state.json is
\* updated (timestamp set, one entry appended), the summary is attempted
\* and not an alert, and the process exits with 0.
C3_MalformedRecovered ==
    (TickEnded /\ agent = "returned" /\ NoJsonOrMalformed(output)) =>
        /\ exitCode = "0"
        /\ result.t = "dict"
        /\ "parse_error" \in DOMAIN result.v
        /\ result.v["parse_error"] = JBool(TRUE)
        /\ stateFile.kind = "json"
        /\ stateFile.val.last_tick_iso = JTime(tick_time)
        /\ Len(stateFile.val.actions_history) = Len(OldState.actions_history) + 1
        /\ stateFile.val.actions_history[Len(stateFile.val.actions_history)].ts = tick_time
        /\ Cardinality(Summaries(tick_time)) = 1
        /\ Alerts(tick_time) = {}

\* C4: every error raised up through state persistence ends in the
\* handler, which appends one line to errors.ndjson, attempts one alert
\* carrying the original error text and exits with status 1, no exception
\* leaving the process.
UpThroughPersistence == {"init", "run", "parse", "log", "update", "open", "write"}
C4_FatalFunnel ==
    (TickEnded /\ err # "none" /\ errAt \in UpThroughPersistence) =>
        /\ exitCode = "1"
        /\ Cardinality(ErrorLines(tick_time)) = 1
        /\ \A i \in ErrorLines(tick_time) : errorsLog[i].error = err
        /\ Cardinality(Alerts(tick_time)) = 1
        /\ \A i \in Alerts(tick_time) : slack[i].error = err

\* C5: a tick that has persisted its new state and has come to the summary
\* notification is never turned into a failed tick by it: whatever the
\* response and the outcome of the send, it exits with 0, writes no line to
\* errors.ndjson and sends no alert.
C5_NotificationNotDecisive ==
    (TickEnded /\ persisted /\ errAt # "report") =>
        /\ exitCode = "0"
        /\ ErrorLines(tick_time) = {}
        /\ Alerts(tick_time) = {}

\* C6: while the new state is being persisted, and after a kill during
\* that write, state.json holds the complete old state or the complete
\* new state.
C6_NoPartialFile ==
    (pc = "write" \/ (pc = "idle" /\ exitCode = "killed" /\ agent = "returned")) =>
        stateFile \in {Dumps(OldState), Dumps(state)}

\* C7: the exit code of the agent decides nothing: only a timeout or a
\* missing executable makes the invocation fatal, the stdout is what the
\* parser gets, and the end of the tick (persisted state, exit status) is
\* the one that stdout gives with exit code 0.
InvocationErrors == {"Claude Code timed out after 5 minutes",
                     "Claude Code CLI not found. Is it installed?"}
C7_ExitCodeIgnored ==
    /\ errAt = "run" => err \in InvocationErrors /\ agent = "raised"
    /\ (agent = "returned" /\ pc \in {"log", "update", "open", "write", "report", "notify"})
          => Returned(result) = parse_claude_response(output)
    /\ (TickEnded /\ agent = "returned") =>
          LET r == parse_claude_response(output)
              completes == r.exc = "none" /\ r.val.t = "dict"
              succeeds == /\ completes
                          /\ ~PrintSummaryRaises(r.val)
                          /\ webhook => ~BuildSummaryRaises(r.val)
          IN  /\ persisted = completes
              /\ completes => stateFile = Dumps(update_state(OldState, r.val, tick_time))
              /\ ~completes => stateFile = Dumps(OldState)
              /\ (exitCode = "0") = succeeds

\* the agent left with a non-zero code and empty stdout, and the tick
\* completed
C7_Witness ==
    /\ TickEnded
    /\ agent = "returned"
    /\ returncode # 0
    /\ output = <<>>
    /\ persisted
    /\ exitCode = "0"

\* C8: a missing state.json makes the run write the default skeleton, and a
\* run whose response provides no keys leaves the file as it found it.
FirstRunSkeleton ==
    (pc = "run" /\ startFile = Absent) =>
        stateFile = Dumps(Skeleton) /\ state = Skeleton
NoKeysRun ==
    /\ TickEnded
    /\ exitCode = "0"
    /\ startFile.kind = "json"
    /\ result = EmptyDict
C8_Original ==
    /\ FirstRunSkeleton
    /\ NoKeysRun => stateFile = startFile

\* C8 as amended: the run without keys leaves positions_snapshot,
\* buying_power and notes as they were, sets last_tick_iso to its tick time
\* and appends one entry with empty decisions and notes.
C8_Amended ==
    /\ FirstRunSkeleton
    /\ NoKeysRun =>
          /\ stateFile.kind = "json"
          /\ stateFile.val.positions_snapshot = startFile.val.positions_snapshot
          /\ stateFile.val.buying_power = startFile.val.buying_power
          /\ stateFile.val.notes = startFile.val.notes
          /\ stateFile.val.last_tick_iso = JTime(tick_time)
          /\ stateFile.val.actions_history =
                LastN(Append(startFile.val.actions_history,
                             [ts |-> tick_time, decisions |-> JList(<<>>),
                              market_open |-> Null, notes |-> JStr("")]),
                      HistoryLimit)

\* the second run found the skeleton on disk and got a response without keys
C8_Witness ==
    /\ NoKeysRun
    /\ now = 2
    /\ startFile = Dumps(Skeleton)
    /\ stateFile.val.last_tick_iso = JTime(2)
    /\ Len(stateFile.val.actions_history) = 1

\* C9: each toggle is resolved on its own: unset gives the default of its
\* class (stocks on, crypto and options off); a set value disables exactly
\* when it is false, 0, no or off in any letter case, and enables
\* otherwise, the empty string included.
UpperChar(c) ==
    CASE c = "f" -> "F" [] c = "a" -> "A" [] c = "l" -> "L" [] c = "s" -> "S"
      [] c = "e" -> "E" [] c = "n" -> "N" [] c = "o" -> "O"
      [] OTHER -> c
SameIgnoringCase(s, tok) ==
    /\ Len(s) = Len(tok)
    /\ \A i \in 1..Len(s) : s[i] = tok[i] \/ s[i] = UpperChar(tok[i])
Resolved(value, default) ==
    IF ~value.set THEN default
    ELSE ~ \E tok \in { <<"f", "a", "l", "s", "e">>, <<"0">>, <<"n", "o">>,
                        <<"o", "f", "f">> } : SameIgnoringCase(value.val, tok)
IsFallback(res, o) ==
    /\ res.t = "dict"
    /\ DOMAIN res.v = {"decisions", "notes", "raw_output", "parse_error"}
    /\ res.v["decisions"] = JList(<<>>)
    /\ res.v["parse_error"] = JBool(TRUE)
    /\ res.v["notes"].t = "str"
    /\ res.v["raw_output"] = JText(Truncate(o, RawOutputLimit))
C10_ThreeTier ==
    /\ errAt # "parse"
    /\ (pc = "log" /\ agent = "returned") =>
          IF HasCandidate(output) /\ JsonLoads(Candidate(output)).exc = "none"
          THEN result = JsonLoads(Candidate(output)).val
          ELSE IsFallback(result, output)

\* the entry update_state builds for this tick
NewEntry ==
    [ts |-> tick_time,
     decisions |-> IF "decisions" \in DOMAIN result.v
                   THEN result.v["decisions"] ELSE JList(<<>>),
     market_open |-> IF "market_open" \in DOMAIN result.v
                     THEN result.v["market_open"] ELSE Null,
     notes |-> IF "notes" \in DOMAIN result.v
               THEN result.v["notes"] ELSE JStr("")]

\* C11: a successful state update appends exactly one entry for its tick
\* (timestamp, decisions or the empty list, market_open or null, notes or
\* the empty string) at the end of actions_history and keeps the last 50:
\* the entries before it are the newest of the old history in their order,
\* the timestamps ascend, and a history of 50 stays at 50 with its oldest
\* entry dropped.  The persisted file holds that history.
C11_AppendOneKeepLast ==
    AfterUpdate =>
        LET old == OldState.actions_history
            new == state.actions_history
            n == Len(new)
            kept == n - 1
        IN  /\ n = Min({Len(old) + 1, HistoryLimit})
            /\ new[n] = NewEntry
            /\ \A i \in 1..kept : new[i] = old[Len(old) - kept + i]
            /\ Cardinality({i \in 1..n : new[i].ts = tick_time}) = 1
            /\ \A i \in 1..kept : new[i].ts < new[i + 1].ts
            /\ Len(old) = HistoryLimit => n = HistoryLimit /\ new[1] = old[2]
            /\ pc \in {"report", "notify"} =>
                  stateFile.kind = "json" /\ stateFile.val.actions_history = new

\* a response with every key was appended to a full history, whose oldest
\* entry was dropped, and the state was persisted
C11_Witness ==
    /\ pc = "report"
    /\ Len(OldState.actions_history) = HistoryLimit
    /\ Len(stateFile.val.actions_history) = HistoryLimit
    /\ stateFile.val.actions_history[1] = OldState.actions_history[2]
    /\ stateFile.val.actions_history[HistoryLimit] =
          [ts |-> tick_time, decisions |-> JList(<<Decision>>),
           market_open |-> JBool(TRUE), notes |-> JStr("ok")]

ActionLines(t) == {i \in DOMAIN actionsLog : actionsLog[i].ts = t}

\* the exception was raised before line 641: loading the state, invoking
\* the agent, parsing its output or building the action-log line
BeforePersistence == {"init", "run", "parse", "log"}

\* C12: a tick that fails before state persistence (state file
\* undecodable, agent timed out, agent executable not found, or any other
\* error raised before the update) leaves the audit state as it found it:
\* a state file that existed at the start of the tick has the same content
\* at its end, and the action log has no line for the tick.
C12_FailedTickNoEffect ==
    (TickEnded /\ err # "none" /\ errAt \in BeforePersistence) =>
        /\ ~persisted
        /\ startFile.kind # "absent" => stateFile = startFile
        /\ ActionLines(tick_time) = {}
        /\ \A i \in DOMAIN actionsLog : actionsLog[i].ts < tick_time

\* the second tick found the state of a first successful tick, the agent
\* timed out, and the tick ended with status 1
C12_Witness ==
    /\ TickEnded
    /\ exitCode = "1"
    /\ now = 2
    /\ errAt = "run"
    /\ err = "Claude Code timed out after 5 minutes"
    /\ startFile.kind = "json"
    /\ Len(startFile.val.actions_history) = 1
    /\ stateFile = startFile
    /\ Len(actionsLog) = 1

====
